---- MODULE Spec2Model ----
(***************************************************************************)
(* A model of ingester/src/data/namespace.rs: NamespaceData, its DoubleRef *)
(* table index, the ScopedSequenceNumber guard and the progress query.     *)
(*                                                                         *)
(* Processes: Writers run buffer_operation (the "apply" call), Readers run *)
(* progress.  A step is one access to shared state (the index lock, the    *)
(* buffering_sequence_number lock, the table counter, a table's buffer).   *)
(***************************************************************************)
EXTENDS Integers, Sequences, FiniteSets, TLC

\* ---------------------------------------------------------------- bounds
MaxWriters == 2      \* tasks that may call buffer_operation
MaxReaders == 1      \* tasks that may call progress
MaxNames == 2        \* distinct table names a write may carry
MaxIds == 2          \* distinct table ids a write may carry
MaxSeq == 2          \* distinct sequence numbers
MaxItems == 2        \* items of one write
MaxOverlapItems == 1 \* items of one write, when calls overlap
MaxOps == 2          \* buffer_operation calls started in one behaviour
MaxOverlapOps == 3   \* the same, when calls overlap
MaxLiveOps == 1      \* the same, where termination is checked

Writers == 1..MaxWriters
Readers == 1..MaxReaders
Names == 1..MaxNames
Ids == 1..MaxIds
Seqs == 1..MaxSeq

\* Option::None, for Option<Arc<TableData>> and Option<SequenceNumber>
None == 0

\* ------------------------------------------------------------ value types
\* DmlApplyAction and the error of Result<DmlApplyAction, Error>
Applied(should_pause) == [tag |-> "Applied", pause |-> should_pause]
Skipped == [tag |-> "Skipped", pause |-> FALSE]
Err == [tag |-> "Err", pause |-> FALSE]
\* not a value of the program: the call has not produced its result yet
Running == [tag |-> "Running", pause |-> FALSE]
\* not a value of the program: the call ended in the panic of the drop assertion
Panicked == [tag |-> "Panicked", pause |-> FALSE]

\* what TableData::buffer_table_write may answer
TableOutcomes == {Applied(FALSE), Applied(TRUE), Skipped, Err}

\* an item of DmlWrite::into_tables: (table_name, table_id); the batch is opaque
Items == Names \X Ids
\* the items of one write, in the order into_tables yields them: one batch per
\* table name, each with the id the write carries for it
ItemSeqs ==
    {s \in UNION {[1..n -> Items] : n \in 0..MaxItems} :
        \A i, j \in DOMAIN s : s[i][1] = s[j][1] => i = j}

\* DmlOperation: a write with its items, or a delete naming a table (or none)
WriteOps == [kind : {"Write"}, seq : Seqs, items : ItemSeqs, table_name : {None}]
DeleteOps == [kind : {"Delete"}, seq : Seqs, items : {<<>>}, table_name : Names \cup {None}]
DmlOperations == WriteOps \cup DeleteOps
\* the operations of the overlapping callers
OverlapOperations == {o \in DmlOperations : Len(o.items) <= MaxOverlapItems}
NoOp == [kind |-> "Delete", seq |-> 1, items |-> <<>>, table_name |-> None]

\* ShardProgress: the actively buffering sequence number and what is buffered
ShardProgressNew == [actively_buffering |-> None, buffered |-> {}]
ActivelyBuffering(p, s) == [p EXCEPT !.actively_buffering = s]
Combine(p, q) ==
    [actively_buffering |->
        IF p.actively_buffering # None THEN p.actively_buffering ELSE q.actively_buffering,
     buffered |-> p.buffered \cup q.buffered]

VARIABLES
    \* NamespaceData
    by_name,                    \* DoubleRef.by_name : name -> handle or None
    by_id,                      \* DoubleRef.by_id : id -> handle or None
    arena,                      \* the TableData instances; a handle (Arc) is an index
    table_count,                \* the U64Counter "ingester_tables"
    buffering_sequence_number,  \* Option<SequenceNumber>
    \* the two RwLocks of NamespaceData
    tables_wlock,               \* the writer holding tables.write(), or None
    tables_rlock,               \* the tasks holding tables.read()
    buffering_wlock,            \* the writer holding buffering_sequence_number.write(), or None
    buffering_rlock,            \* the readers holding buffering_sequence_number.read()
    \* one buffer_operation call per writer
    pc, op, idx, table_data, pause_writes, all_skipped, result,
    \* one progress or accessor call per reader
    qpc, tables, progress, lookup,
    \* history
    calls,          \* buffer_operation calls started so far
    outcomes,       \* per writer: the outcomes of buffer_table_write, in order
    wrote,          \* per writer: handles this call has recorded its sequence number in
    how,            \* per writer: how the current handle was obtained
    overlapped,     \* two calls overlapped since the namespace was last idle
    overlap_same,   \* ... and two of them carried the same sequence number
    assert_failed,  \* a drop assertion failed since the namespace was last idle
    applied_items,  \* items of the writes that returned Ok
    in_call,        \* per reader: the query started inside the call that is running
    quiet,          \* per reader: no call was running when the query started, and
                    \* none has started since
    must_show       \* per reader: the sequence number of the running call, once the
                    \* query read a table that call had written with items still to go

nsvars == <<by_name, by_id, arena, table_count, buffering_sequence_number>>
lvars == <<tables_wlock, tables_rlock, buffering_wlock, buffering_rlock>>
wvars == <<pc, op, idx, table_data, pause_writes, all_skipped, result>>
qvars == <<qpc, tables, progress, lookup>>
hwvars == <<calls, outcomes, wrote, how, overlapped, overlap_same, assert_failed, applied_items>>
hqvars == <<in_call, quiet, must_show>>
vars == <<nsvars, lvars, wvars, qvars, hwvars, hqvars>>

\* ------------------------------------------------------------------ helpers
Range(f) == {f[x] : x \in DOMAIN f}

\* the writers inside buffer_operation: the guard is set and not yet dropped
Active == {w \in Writers : pc[w] # "idle"}

\* the item the loop of writer w is at
Item(w) == op[w].items[idx[w]]

\* DoubleRef::by_name, DoubleRef::by_id
ByNameAbsent(name) == None
ByName(name) == by_name[name]
ById(id) == by_id[id]

\* TableData::progress of the instance behind handle t
TableProgress(t) == [actively_buffering |-> None, buffered |-> arena[t].buffered]

\* the tasks that take tables.read(): a writer in table_data, a reader in progress
\* or in an accessor
WriterTask(w) == <<"w", w>>
ReaderTask(r) == <<"r", r>>
Tasks == {WriterTask(w) : w \in Writers} \cup {ReaderTask(r) : r \in Readers}

\* the writers that have called tables.write() and wait for it: insert_table
\* starts with the call (line 265)
TablesWriteWaiters == {w \in Writers : pc[w] = "insert"}
\* the writers that wait for buffering_sequence_number.write() in the drop of
\* their guard (line 339)
BufferingWriteWaiters == {w \in Writers : pc[w] = "drop"}

\* parking_lot::RwLock: read() waits for the writer that holds the lock and for
\* the writers that wait for it (the lock is fair: a waiting writer is not
\* overtaken by new readers); write() waits for everyone that holds it
CanRead(wlock, waiters) == wlock = None /\ waiters = {}
CanWrite(wlock, rlock) == wlock = None /\ rlock = {}
\* a read guard goes out of scope
ReadGuardLeaked(rlock, task) == rlock
ReadGuardDropped(rlock, task) == rlock \ {task}

\* the fields namespace_id and namespace_name, set by new() and never assigned
namespace_id == 1
namespace_name == 1

\* the accessor calls a reader may make, and the reader that is making none
AccessorCalls ==
    ({"table_data"} \X Names) \cup ({"table_id"} \X Ids) \cup
    {<<"namespace_id", None>>, <<"namespace_name", None>>}
NoLookup == [kind |-> "none", key |-> None, found |-> None]

Init ==
    /\ by_name = [n \in Names |-> None]
    /\ by_id = [i \in Ids |-> None]
    /\ arena = <<>>
    /\ table_count = 0
    /\ buffering_sequence_number = None
    /\ tables_wlock = None
    /\ tables_rlock = {}
    /\ buffering_wlock = None
    /\ buffering_rlock = {}
    /\ pc = [w \in Writers |-> "idle"]
    /\ op = [w \in Writers |-> NoOp]
    /\ idx = [w \in Writers |-> 1]
    /\ table_data = [w \in Writers |-> None]
    /\ pause_writes = [w \in Writers |-> FALSE]
    /\ all_skipped = [w \in Writers |-> TRUE]
    /\ result = [w \in Writers |-> Running]
    /\ qpc = [r \in Readers |-> "idle"]
    /\ tables = [r \in Readers |-> {}]
    /\ progress = [r \in Readers |-> ShardProgressNew]
    /\ lookup = [r \in Readers |-> NoLookup]
    /\ calls = 0
    /\ outcomes = [w \in Writers |-> <<>>]
    /\ wrote = [w \in Writers |-> {}]
    /\ how = [w \in Writers |-> "none"]
    /\ overlapped = FALSE
    /\ overlap_same = FALSE
    /\ assert_failed = FALSE
    /\ applied_items = {}
    /\ in_call = [r \in Readers |-> FALSE]
    /\ quiet = [r \in Readers |-> FALSE]
    /\ must_show = [r \in Readers |-> {}]

\* the fields of NamespaceData and the locals of its methods
TypeOK ==
    /\ arena \in Seq([table_name : Names, table_id : Ids, buffered : SUBSET Seqs])
    /\ by_name \in [Names -> DOMAIN arena \cup {None}]
    /\ by_id \in [Ids -> DOMAIN arena \cup {None}]
    /\ table_count \in Nat
    /\ buffering_sequence_number \in Seqs \cup {None}
    /\ tables_wlock \in Writers \cup {None}
    /\ tables_rlock \subseteq Tasks
    /\ buffering_wlock \in Writers \cup {None}
    /\ buffering_rlock \subseteq Readers
    /\ pc \in [Writers -> {"idle", "scoped", "loop", "lookup", "insert", "ins_count",
                           "ins_by_name", "ins_by_id", "ins_ret", "buffer", "delete",
                           "drop", "dropping"}]
    /\ op \in [Writers -> DmlOperations]
    /\ \A w \in Writers : idx[w] \in 1..(Len(op[w].items) + 1)
    /\ table_data \in [Writers -> DOMAIN arena \cup {None}]
    /\ pause_writes \in [Writers -> BOOLEAN]
    /\ all_skipped \in [Writers -> BOOLEAN]
    /\ result \in [Writers -> {Applied(TRUE), Applied(FALSE), Skipped, Err, Running, Panicked}]
    /\ qpc \in [Readers -> {"idle", "snap", "marker", "overlay", "fold", "done", "acc"}]
    /\ tables \in [Readers -> SUBSET DOMAIN arena]
    /\ progress \in [Readers -> [actively_buffering : Seqs \cup {None}, buffered : SUBSET Seqs]]
    /\ \A r \in Readers :
        \/ lookup[r] = NoLookup
        \/ /\ <<lookup[r].kind, lookup[r].key>> \in AccessorCalls
           /\ lookup[r].found \in DOMAIN arena \cup {None, namespace_id, namespace_name}

\* ------------------------------------------------- ScopedSequenceNumber
\* ScopedSequenceNumber::new: what it stores in the marker
ScopedNewUnset(sequence_number) == None
ScopedNewOther(sequence_number) == (sequence_number % MaxSeq) + 1
ScopedNew(sequence_number) == sequence_number

\* Drop: the assert_eq! on the marker
DropAssertNever(marker, sequence_number) == TRUE
DropAssert(marker, sequence_number) == marker = sequence_number

\* Drop: the marker after a drop whose assertion held
DropKeeps(marker) == marker
DropClears(marker) == None

\* --------------------------------------------------- buffer_operation
\* lines 178-189 and 327: take the sequence number, lock the marker and set it
BufferOperationStart(w, o, max_calls) ==
    /\ pc[w] = "idle"
    /\ calls < max_calls
    /\ CanWrite(buffering_wlock, buffering_rlock)
    /\ buffering_wlock' = w
    /\ calls' = calls + 1
    /\ op' = [op EXCEPT ![w] = o]
    /\ buffering_sequence_number' = ScopedNew(o.seq)
    /\ pc' = [pc EXCEPT ![w] = "scoped"]
    /\ idx' = [idx EXCEPT ![w] = 1]
    /\ table_data' = [table_data EXCEPT ![w] = None]
    /\ pause_writes' = [pause_writes EXCEPT ![w] = FALSE]
    /\ all_skipped' = [all_skipped EXCEPT ![w] = TRUE]
    /\ result' = [result EXCEPT ![w] = Running]
    /\ outcomes' = [outcomes EXCEPT ![w] = <<>>]
    /\ wrote' = [wrote EXCEPT ![w] = {}]
    /\ how' = [how EXCEPT ![w] = "none"]
    /\ overlapped' = (Active # {})
    /\ overlap_same' = (Active # {} /\ (overlap_same \/ \E v \in Active : op[v].seq = o.seq))
    /\ assert_failed' = (Active # {} /\ assert_failed)
    /\ in_call' = [r \in Readers |-> FALSE]
    /\ quiet' = [r \in Readers |-> FALSE]
    /\ UNCHANGED <<by_name, by_id, arena, table_count>>
    /\ UNCHANGED <<tables_wlock, tables_rlock, buffering_rlock>>
    /\ UNCHANGED <<applied_items, qvars, must_show>>

\* lines 327-333 and 191: the write guard of the marker is a temporary of the
\* assignment; the guard object is built and the match is entered
ScopedNewReturn(w) ==
    /\ pc[w] = "scoped"
    /\ buffering_wlock' = None
    /\ pc' = [pc EXCEPT ![w] = IF op[w].kind = "Write" THEN "loop" ELSE "delete"]
    /\ UNCHANGED <<nsvars, tables_wlock, tables_rlock, buffering_rlock>>
    /\ UNCHANGED <<op, idx, table_data, pause_writes, all_skipped, result>>
    /\ UNCHANGED <<qvars, hwvars, hqvars>>

\* lines 201, 249-250: table_data(name) takes tables.read() and looks the name up
TableDataLookup(w) ==
    /\ pc[w] = "loop"
    /\ idx[w] <= Len(op[w].items)
    /\ CanRead(tables_wlock, TablesWriteWaiters)
    /\ tables_rlock' = tables_rlock \cup {WriterTask(w)}
    /\ table_data' = [table_data EXCEPT ![w] = ByName(Item(w)[1])]
    /\ pc' = [pc EXCEPT ![w] = "lookup"]
    /\ UNCHANGED <<nsvars, tables_wlock, buffering_wlock, buffering_rlock>>
    /\ UNCHANGED <<op, idx, pause_writes, all_skipped, result>>
    /\ UNCHANGED <<qvars, hwvars, hqvars>>

\* lines 251, 201-204: table_data returns and its read guard is dropped; the match
\* takes the handle, or goes to insert_table
TableDataReturn(w) ==
    /\ pc[w] = "lookup"
    /\ tables_rlock' = ReadGuardDropped(tables_rlock, WriterTask(w))
    /\ pc' = [pc EXCEPT ![w] = IF table_data[w] # None THEN "buffer" ELSE "insert"]
    /\ how' = [how EXCEPT ![w] = IF table_data[w] # None THEN "hit" ELSE "none"]
    /\ UNCHANGED <<nsvars, tables_wlock, buffering_wlock, buffering_rlock>>
    /\ UNCHANGED <<op, idx, table_data, pause_writes, all_skipped, result>>
    /\ UNCHANGED <<calls, outcomes, wrote, overlapped, overlap_same, assert_failed, applied_items>>
    /\ UNCHANGED <<qvars, hqvars>>

\* insert_table, line 266: the second lookup, under tables.write()
InsertLookupSkipped(name) == None
InsertLookup(name) == ByName(name)

\* insert_table, lines 265-267: take tables.write() and look the name up again;
\* a hit is the instance another caller made
InsertTableLock(w) ==
    /\ pc[w] = "insert"
    /\ CanWrite(tables_wlock, tables_rlock)
    /\ tables_wlock' = w
    /\ LET v == InsertLookup(Item(w)[1]) IN
        /\ table_data' = [table_data EXCEPT ![w] = v]
        /\ pc' = [pc EXCEPT ![w] = IF v # None THEN "ins_ret" ELSE "ins_count"]
        /\ how' = [how EXCEPT ![w] = IF v # None THEN "raced" ELSE "none"]
    /\ UNCHANGED <<nsvars, tables_rlock, buffering_wlock, buffering_rlock>>
    /\ UNCHANGED <<op, idx, pause_writes, all_skipped, result>>
    /\ UNCHANGED <<calls, outcomes, wrote, overlapped, overlap_same, assert_failed, applied_items>>
    /\ UNCHANGED <<qvars, hqvars>>

\* U64Counter::inc(1)
TableCountKept(count) == count
TableCountInc(count) == count + 1

\* insert_table, line 269: table_count.inc(1)
InsertTableCount(w) ==
    /\ pc[w] = "ins_count"
    /\ table_count' = TableCountInc(table_count)
    /\ pc' = [pc EXCEPT ![w] = "ins_by_name"]
    /\ UNCHANGED <<by_name, by_id, arena, buffering_sequence_number, lvars>>
    /\ UNCHANGED <<op, idx, table_data, pause_writes, all_skipped, result>>
    /\ UNCHANGED <<qvars, hwvars, hqvars>>

\* TableData::new (lines 272-278): the instance keeps the name and id it was made with
TableDataNew(table_id, table_name) ==
    [table_name |-> table_name, table_id |-> table_id, buffered |-> {}]

\* DoubleRef::insert, lines 30-34: Arc::new(t), then by_name.insert
DoubleRefInsertByName(w) ==
    /\ pc[w] = "ins_by_name"
    /\ LET t == TableDataNew(Item(w)[2], Item(w)[1])
           h == Len(arena) + 1
       IN
        /\ arena' = Append(arena, t)
        /\ by_name' = [by_name EXCEPT ![t.table_name] = h]
        /\ table_data' = [table_data EXCEPT ![w] = h]
    /\ pc' = [pc EXCEPT ![w] = "ins_by_id"]
    /\ UNCHANGED <<by_id, table_count, buffering_sequence_number, lvars>>
    /\ UNCHANGED <<op, idx, pause_writes, all_skipped, result>>
    /\ UNCHANGED <<qvars, hwvars, hqvars>>

\* DoubleRef::insert, lines 35-36: by_id.insert, and the handle is the result
DoubleRefInsertById(w) ==
    /\ pc[w] = "ins_by_id"
    /\ by_id' = [by_id EXCEPT ![arena[table_data[w]].table_id] = table_data[w]]
    /\ pc' = [pc EXCEPT ![w] = "ins_ret"]
    /\ how' = [how EXCEPT ![w] = "created"]
    /\ UNCHANGED <<by_name, arena, table_count, buffering_sequence_number, lvars>>
    /\ UNCHANGED <<op, idx, table_data, pause_writes, all_skipped, result>>
    /\ UNCHANGED <<calls, outcomes, wrote, overlapped, overlap_same, assert_failed, applied_items>>
    /\ UNCHANGED <<qvars, hqvars>>

\* insert_table returning with tables.write() still held
InsertTableReturnHolding(w) ==
    /\ pc[w] = "ins_ret"
    /\ pc' = [pc EXCEPT ![w] = "buffer"]
    /\ UNCHANGED <<nsvars, lvars>>
    /\ UNCHANGED <<op, idx, table_data, pause_writes, all_skipped, result>>
    /\ UNCHANGED <<qvars, hwvars, hqvars>>

\* insert_table, line 281: the function returns the handle it found or made, and
\* tables.write() is dropped
InsertTableReturn(w) ==
    /\ pc[w] = "ins_ret"
    /\ tables_wlock' = None
    /\ pc' = [pc EXCEPT ![w] = "buffer"]
    /\ UNCHANGED <<nsvars, tables_rlock, buffering_wlock, buffering_rlock>>
    /\ UNCHANGED <<op, idx, table_data, pause_writes, all_skipped, result>>
    /\ UNCHANGED <<qvars, hwvars, hqvars>>

\* TableData::buffer_table_write: an applied write records the sequence number
TableBufferWrite(t, sequence_number, action) ==
    IF action.tag = "Applied"
    THEN [t EXCEPT !.buffered = @ \cup {sequence_number}]
    ELSE t

\* line 215: pause_writes = pause_writes || should_pause
FoldPauseLast(pause, should_pause) == should_pause
FoldPause(pause, should_pause) == pause \/ should_pause

\* lines 203, 213: the ? operator, an error ends the loop and the call
PropagatesNever(action) == FALSE
Propagates(action) == action.tag = "Err"

\* lines 206-217: the awaited buffer_table_write of the table returns; its
\* outcome is folded
BufferTableWrite(w, action) ==
    /\ pc[w] = "buffer"
    /\ LET h == table_data[w]
           applied == action.tag = "Applied"
       IN
        /\ arena' = [arena EXCEPT ![h] = TableBufferWrite(@, op[w].seq, action)]
        /\ wrote' = [wrote EXCEPT ![w] = IF applied THEN @ \cup {h} ELSE @]
        /\ pause_writes' = [pause_writes EXCEPT
                                ![w] = IF applied THEN FoldPause(@, action.pause) ELSE @]
        /\ all_skipped' = [all_skipped EXCEPT ![w] = IF applied THEN FALSE ELSE @]
    /\ outcomes' = [outcomes EXCEPT ![w] = Append(@, action)]
    /\ IF Propagates(action)
       THEN /\ result' = [result EXCEPT ![w] = Err]
            /\ pc' = [pc EXCEPT ![w] = "drop"]
            /\ UNCHANGED <<idx, how>>
       ELSE /\ idx' = [idx EXCEPT ![w] = @ + 1]
            /\ pc' = [pc EXCEPT ![w] = "loop"]
            /\ how' = [how EXCEPT ![w] = "none"]
            /\ UNCHANGED result
    /\ UNCHANGED <<by_name, by_id, table_count, buffering_sequence_number, lvars>>
    /\ UNCHANGED <<op, table_data>>
    /\ UNCHANGED <<calls, overlapped, overlap_same, assert_failed, applied_items>>
    /\ UNCHANGED <<qvars, hqvars>>

\* lines 223-228: the outcome of the whole write
WriteOutcome(skipped, pause) == IF skipped THEN Skipped ELSE Applied(pause)

WriteReturn(w) ==
    /\ pc[w] = "loop"
    /\ idx[w] > Len(op[w].items)
    /\ result' = [result EXCEPT ![w] = WriteOutcome(all_skipped[w], pause_writes[w])]
    /\ pc' = [pc EXCEPT ![w] = "drop"]
    /\ UNCHANGED <<nsvars, lvars, op, idx, table_data, pause_writes, all_skipped>>
    /\ UNCHANGED <<qvars, hwvars, hqvars>>

\* line 242: the outcome of a delete
DeleteOutcomePause == Applied(TRUE)
DeleteOutcome == Applied(FALSE)

\* lines 230-243: the delete is logged and discarded
DeleteReturn(w) ==
    /\ pc[w] = "delete"
    /\ result' = [result EXCEPT ![w] = DeleteOutcome]
    /\ pc' = [pc EXCEPT ![w] = "drop"]
    /\ UNCHANGED <<nsvars, lvars, op, idx, table_data, pause_writes, all_skipped>>
    /\ UNCHANGED <<qvars, hwvars, hqvars>>

\* line 339: the guard is dropped on every way out of buffer_operation, after the
\* result is computed; the drop takes buffering_sequence_number.write()
ScopedDropLock(w) ==
    /\ pc[w] = "drop"
    /\ CanWrite(buffering_wlock, buffering_rlock)
    /\ buffering_wlock' = w
    /\ pc' = [pc EXCEPT ![w] = "dropping"]
    /\ UNCHANGED <<nsvars, tables_wlock, tables_rlock, buffering_rlock>>
    /\ UNCHANGED <<op, idx, table_data, pause_writes, all_skipped, result>>
    /\ UNCHANGED <<qvars, hwvars, hqvars>>

\* lines 340-346: the assertion, the clearing of the marker, and the end of the
\* write guard; a failed assertion panics before line 345, so the marker is left
\* as it is, and the unwinding drops the write guard.  The call's locals end with
\* the call.
ScopedDrop(w) ==
    /\ pc[w] = "dropping"
    /\ pc' = [pc EXCEPT ![w] = "idle"]
    /\ buffering_wlock' = None
    /\ IF DropAssert(buffering_sequence_number, op[w].seq)
       THEN /\ buffering_sequence_number' = DropClears(buffering_sequence_number)
            /\ applied_items' =
                IF op[w].kind = "Write" /\ result[w].tag # "Err"
                THEN applied_items \cup Range(op[w].items)
                ELSE applied_items
            /\ UNCHANGED <<result, assert_failed>>
       ELSE /\ result' = [result EXCEPT ![w] = Panicked]
            /\ assert_failed' = TRUE
            /\ UNCHANGED <<buffering_sequence_number, applied_items>>
    /\ op' = [op EXCEPT ![w] = NoOp]
    /\ idx' = [idx EXCEPT ![w] = 1]
    /\ table_data' = [table_data EXCEPT ![w] = None]
    /\ pause_writes' = [pause_writes EXCEPT ![w] = FALSE]
    /\ all_skipped' = [all_skipped EXCEPT ![w] = TRUE]
    /\ outcomes' = [outcomes EXCEPT ![w] = <<>>]
    /\ wrote' = [wrote EXCEPT ![w] = {}]
    /\ how' = [how EXCEPT ![w] = "none"]
    /\ in_call' = [r \in Readers |-> FALSE]
    /\ must_show' = [r \in Readers |-> {}]
    /\ UNCHANGED <<by_name, by_id, arena, table_count>>
    /\ UNCHANGED <<tables_wlock, tables_rlock, buffering_rlock>>
    /\ UNCHANGED <<calls, overlapped, overlap_same, quiet>>
    /\ UNCHANGED qvars

\* ------------------------------------------------------------- progress
\* line 285: the handles in by_id, collected under tables.read()
ProgressSnapshot(r) ==
    /\ qpc[r] \in {"idle", "done"}
    /\ CanRead(tables_wlock, TablesWriteWaiters)
    /\ tables_rlock' = tables_rlock \cup {ReaderTask(r)}
    /\ tables' = [tables EXCEPT ![r] = Range(by_id) \ {None}]
    /\ progress' = [progress EXCEPT ![r] = ShardProgressNew]
    /\ qpc' = [qpc EXCEPT ![r] = "snap"]
    /\ in_call' = [in_call EXCEPT ![r] = Active # {}]
    /\ quiet' = [quiet EXCEPT ![r] = Active = {}]
    /\ must_show' = [must_show EXCEPT ![r] = {}]
    /\ UNCHANGED <<nsvars, tables_wlock, buffering_wlock, buffering_rlock>>
    /\ UNCHANGED <<wvars, hwvars, lookup>>

\* line 285: the read guard is a temporary of the let statement
ProgressSnapshotDone(r) ==
    /\ qpc[r] = "snap"
    /\ tables_rlock' = ReadGuardDropped(tables_rlock, ReaderTask(r))
    /\ qpc' = [qpc EXCEPT ![r] = "marker"]
    /\ UNCHANGED <<nsvars, tables_wlock, buffering_wlock, buffering_rlock>>
    /\ UNCHANGED <<wvars, hwvars, hqvars, tables, progress, lookup>>

\* line 292: what the query reads from buffering_sequence_number
ReadMarker == buffering_sequence_number

\* lines 288-292: ShardProgress::new().actively_buffering(marker), the marker
\* read under buffering_sequence_number.read()
ProgressMarker(r) ==
    /\ qpc[r] = "marker"
    /\ CanRead(buffering_wlock, BufferingWriteWaiters)
    /\ buffering_rlock' = buffering_rlock \cup {r}
    /\ progress' = [progress EXCEPT ![r] = ActivelyBuffering(ShardProgressNew, ReadMarker)]
    /\ qpc' = [qpc EXCEPT ![r] = "overlay"]
    /\ UNCHANGED <<nsvars, tables_wlock, tables_rlock, buffering_wlock>>
    /\ UNCHANGED <<wvars, hwvars, hqvars, tables, lookup>>

\* line 292: the read guard of the marker is a temporary of the expression
ProgressMarkerDone(r) ==
    /\ qpc[r] = "overlay"
    /\ buffering_rlock' = buffering_rlock \ {r}
    /\ qpc' = [qpc EXCEPT ![r] = IF tables[r] = {} THEN "done" ELSE "fold"]
    /\ UNCHANGED <<nsvars, tables_wlock, tables_rlock, buffering_wlock>>
    /\ UNCHANGED <<wvars, hwvars, hqvars, tables, progress, lookup>>

\* lines 294-296: one turn of the loop, combine with table_data.progress()
ProgressCombine(r, t) ==
    /\ qpc[r] = "fold"
    /\ t \in tables[r]
    /\ progress' = [progress EXCEPT ![r] = Combine(@, TableProgress(t))]
    /\ tables' = [tables EXCEPT ![r] = @ \ {t}]
    /\ qpc' = [qpc EXCEPT ![r] = IF tables[r] = {t} THEN "done" ELSE "fold"]
    /\ must_show' = [must_show EXCEPT
            ![r] = @ \cup {op[w].seq : w \in {v \in Active : t \in wrote[v] /\ idx[v] <= Len(op[v].items)}}]
    /\ UNCHANGED <<nsvars, lvars, wvars, hwvars, in_call, quiet, lookup>>

\* ------------------------------------------------------------ accessors
\* what table_data(name), table_id(id), namespace_id() and namespace_name() return
AccessorResultFirst(kind, key) == IF arena = <<>> THEN None ELSE 1
AccessorResult(kind, key) ==
    CASE kind = "table_data" -> ByName(key)
      [] kind = "table_id" -> ById(key)
      [] kind = "namespace_id" -> namespace_id
      [] kind = "namespace_name" -> namespace_name

\* lines 248-250, 254-256, 301-303, 311-313: a call of an accessor from outside;
\* table_data and table_id look up under tables.read(), the other two read a field
AccessorCall(r, kind, key) ==
    /\ qpc[r] \in {"idle", "done"}
    /\ IF kind \in {"table_data", "table_id"}
       THEN /\ CanRead(tables_wlock, TablesWriteWaiters)
            /\ tables_rlock' = tables_rlock \cup {ReaderTask(r)}
       ELSE UNCHANGED tables_rlock
    /\ lookup' = [lookup EXCEPT
            ![r] = [kind |-> kind, key |-> key, found |-> AccessorResult(kind, key)]]
    /\ qpc' = [qpc EXCEPT ![r] = "acc"]
    /\ tables' = [tables EXCEPT ![r] = {}]
    /\ progress' = [progress EXCEPT ![r] = ShardProgressNew]
    /\ in_call' = [in_call EXCEPT ![r] = FALSE]
    /\ quiet' = [quiet EXCEPT ![r] = FALSE]
    /\ must_show' = [must_show EXCEPT ![r] = {}]
    /\ UNCHANGED <<nsvars, tables_wlock, buffering_wlock, buffering_rlock>>
    /\ UNCHANGED <<wvars, hwvars>>

\* lines 251, 257: the accessor returns what it found, and its read guard is dropped
AccessorReturn(r) ==
    /\ qpc[r] = "acc"
    /\ tables_rlock' = ReadGuardDropped(tables_rlock, ReaderTask(r))
    /\ lookup' = [lookup EXCEPT ![r] = NoLookup]
    /\ qpc' = [qpc EXCEPT ![r] = "idle"]
    /\ UNCHANGED <<nsvars, tables_wlock, buffering_wlock, buffering_rlock>>
    /\ UNCHANGED <<wvars, hwvars, hqvars, tables, progress>>

\* ------------------------------------------------------- specifications
\* the steps of the buffer_operation calls of the callers W, who pass operations of O,
\* at most max_calls of them
WriterSteps(W, O, max_calls) ==
    \/ \E w \in W, o \in O : BufferOperationStart(w, o, max_calls)
    \/ \E w \in W : ScopedNewReturn(w)
    \/ \E w \in W : TableDataLookup(w)
    \/ \E w \in W : TableDataReturn(w)
    \/ \E w \in W : InsertTableLock(w)
    \/ \E w \in W : InsertTableCount(w)
    \/ \E w \in W : DoubleRefInsertByName(w)
    \/ \E w \in W : DoubleRefInsertById(w)
    \/ \E w \in W : InsertTableReturn(w)
    \/ \E w \in W, a \in TableOutcomes : BufferTableWrite(w, a)
    \/ \E w \in W : WriteReturn(w)
    \/ \E w \in W : DeleteReturn(w)
    \/ \E w \in W : ScopedDropLock(w)
    \/ \E w \in W : ScopedDrop(w)

\* the steps of a progress call and of the accessors
ReaderSteps ==
    \/ \E r \in Readers : ProgressSnapshot(r)
    \/ \E r \in Readers : ProgressSnapshotDone(r)
    \/ \E r \in Readers : ProgressMarker(r)
    \/ \E r \in Readers : ProgressMarkerDone(r)
    \/ \E r \in Readers : \E t \in tables[r] : ProgressCombine(r, t)
    \/ \E r \in Readers, c \in AccessorCalls : AccessorCall(r, c[1], c[2])
    \/ \E r \in Readers : AccessorReturn(r)

\* the namespace under the single-writer contract: one caller issues the
\* buffer_operation calls, one after the other; progress queries and accessor
\* calls run beside them
Next == WriterSteps({1}, DmlOperations, MaxOps) \/ ReaderSteps
Spec == Init /\ [][Next]_vars

\* the contract broken: several callers, whose buffer_operation calls overlap
NextOverlap == WriterSteps(Writers, OverlapOperations, MaxOverlapOps)
SpecOverlap == Init /\ [][NextOverlap]_vars

\* the steps buffer_operation takes by itself once it is called: all but the start
\* of the call and the return of the awaited buffer_table_write
WriterRuns(w) ==
    \/ ScopedNewReturn(w)
    \/ TableDataLookup(w)
    \/ TableDataReturn(w)
    \/ InsertTableLock(w)
    \/ InsertTableCount(w)
    \/ DoubleRefInsertByName(w)
    \/ DoubleRefInsertById(w)
    \/ InsertTableReturn(w)
    \/ WriteReturn(w)
    \/ DeleteReturn(w)
    \/ ScopedDropLock(w)
    \/ ScopedDrop(w)

\* the return of the buffer_table_write a call awaits
TableReturns(w) == \E a \in TableOutcomes : BufferTableWrite(w, a)

\* the steps progress and the accessors take by themselves once they are called
ReaderRuns(r) ==
    \/ ProgressSnapshotDone(r)
    \/ ProgressMarker(r)
    \/ ProgressMarkerDone(r)
    \/ \E t \in tables[r] : ProgressCombine(r, t)
    \/ AccessorReturn(r)

\* one buffer_operation call beside progress queries and accessor calls, on a fair
\* scheduler: a task that can run, or that waits for a lock which is free again
\* and again, runs (parking_lot's RwLock is fair to readers and writers).  Nothing
\* is assumed of the table's buffer_table_write, nor of when calls are made.
NextLive == WriterSteps({1}, DmlOperations, MaxLiveOps) \/ ReaderSteps
SpecLive ==
    /\ Init
    /\ [][NextLive]_vars
    /\ SF_vars(WriterRuns(1))
    /\ \A r \in Readers : SF_vars(ReaderRuns(r))

\* ================================================================ claims
\* the handles of the instances made with table name n
InstancesNamed(n) == {h \in DOMAIN arena : arena[h].table_name = n}

\* the handles reachable through each view
NameView == Range(by_name) \ {None}
IdView == Range(by_id) \ {None}

\* ---------------------------------------------------------------------
\* C1: the result of a progress query that folded in a table which a call had
\* already recorded its sequence number S in, read while that call still had
\* other items to apply, marks S as actively buffering; stated of the results
\* held while that call is still running.
TornReportedTruthfully ==
    \A r \in Readers :
        qpc[r] = "done" => \A s \in must_show[r] : progress[r].actively_buffering = s

\* ---------------------------------------------------------------------
\* C2: a progress query that starts and finishes while one buffer_operation call
\* for sequence number S holds the marker reports S as actively buffering,
\* however many tables have recorded S.
InsideReportsBuffering ==
    \A r \in Readers :
        (qpc[r] = "done" /\ in_call[r]) =>
            \E w \in Active : progress[r].actively_buffering = op[w].seq

\* a query that ran inside a call that has recorded S in some table and still has
\* an item to go
InsideReportsBufferingWitness ==
    \E r \in Readers :
        /\ qpc[r] = "done"
        /\ in_call[r]
        /\ pc[1] = "loop"
        /\ idx[1] <= Len(op[1].items)
        /\ wrote[1] # {}
        /\ progress[r].buffered # {}

\* ---------------------------------------------------------------------
\* C3: with one caller, the marker is None whenever no buffer_operation call is
\* running and Some(S) throughout the call for S, for writes and deletes and on
\* the error path as on the normal one.
MarkerTracksCall ==
    IF Active = {}
    THEN buffering_sequence_number = None
    ELSE \A w \in Active : buffering_sequence_number = op[w].seq

\* a call that returned the error of a table's buffer_table_write
MarkerTracksCallWitness ==
    /\ pc[1] = "idle"
    /\ result[1] = Err
    /\ table_count > 0
    /\ buffering_sequence_number = None

\* ---------------------------------------------------------------------
\* C4: when buffer_operation calls overlapped and all of them have dropped their
\* guard, the assertion of at least one drop has failed.
OverlapDetected ==
    (Active = {} /\ overlapped) => assert_failed

\* two overlapping calls with the same sequence number, both dropped
OverlapDetectedWitness ==
    /\ Active = {}
    /\ overlapped
    /\ overlap_same
    /\ assert_failed

\* ---------------------------------------------------------------------
\* C5: callers racing through get-or-create for one new table name make one
\* instance, count it once, and all hold that instance.
CreationIdempotent ==
    /\ \A n \in Names : Cardinality(InstancesNamed(n)) <= 1
    /\ tables_wlock = None => table_count = Len(arena)
    /\ \A w \in Writers :
        pc[w] = "buffer" =>
            /\ table_data[w] # None
            /\ table_data[w] = by_name[Item(w)[1]]
            /\ arena[table_data[w]].table_name = Item(w)[1]

\* two callers missed the first lookup of the same name; one made the instance,
\* the other found it in the second lookup
CreationIdempotentWitness ==
    \E w, v \in Writers :
        /\ w # v
        /\ pc[w] = "buffer" /\ how[w] = "raced"
        /\ pc[v] = "buffer" /\ how[v] = "created"
        /\ table_data[w] = table_data[v]
        /\ table_count = 1

\* ---------------------------------------------------------------------
\* C6: for every item of every write that returned Ok, the lookup by its name
\* and the lookup by its id both find a table, and the same one.
LookupsAgree ==
    tables_wlock = None =>
        \A it \in applied_items :
            /\ ByName(it[1]) # None
            /\ ById(it[2]) # None
            /\ ByName(it[1]) = ById(it[2])

\* ---------------------------------------------------------------------
\* C7: whenever tables.write() is not held, the instances reachable by name are
\* the instances reachable by id.
ViewsAgree ==
    tables_wlock = None => NameView = IdView

\* ---------------------------------------------------------------------
\* the outcome the aggregation rule gives for the per-item outcomes outs
Aggregate(outs) ==
    IF \A i \in DOMAIN outs : outs[i].tag = "Skipped"
    THEN Skipped
    ELSE Applied(\E i \in DOMAIN outs : outs[i] = Applied(TRUE))

\* C8: a write that returns Ok returns Skipped iff every item was skipped, and
\* otherwise Applied(p), p the OR of the pause flags of the applied items.
AggregationRule ==
    \A w \in Writers :
        (pc[w] = "drop" /\ op[w].kind = "Write" /\ result[w] # Err) =>
            /\ Len(outcomes[w]) = Len(op[w].items)
            /\ result[w] = Aggregate(outcomes[w])

\* the first table asks for a pause, the last one does not
AggregationRuleWitness ==
    /\ pc[1] = "drop"
    /\ outcomes[1] = <<Applied(TRUE), Applied(FALSE)>>
    /\ result[1] = Applied(TRUE)

\* ---------------------------------------------------------------------
\* at an error of item k: the loop is still at k, the call is on its way out with
\* that error, and the tables of items 1..k are in the index, counted, and hold
\* the sequence number where the write was applied
ErrorLeavesEarlierItems ==
    \A w \in Writers : \A k \in DOMAIN outcomes[w] :
        outcomes[w][k] = Err =>
            /\ k = Len(outcomes[w])
            /\ idx[w] = k
            /\ pc[w] \in {"drop", "dropping"}
            /\ result[w] = Err
            /\ table_count = Len(arena)
            /\ \A j \in 1..k :
                /\ ByName(op[w].items[j][1]) # None
                /\ (j < k /\ outcomes[w][j].tag = "Applied") =>
                        op[w].seq \in arena[ByName(op[w].items[j][1])].buffered

\* no step removes or rebinds a name, lowers the counter, or drops an instance or
\* a sequence number it has buffered
NothingRolledBack ==
    /\ \A n \in Names : by_name[n] # None => by_name'[n] = by_name[n]
    /\ table_count' >= table_count
    /\ \A h \in DOMAIN arena :
        /\ h \in DOMAIN arena'
        /\ arena[h].buffered \subseteq arena'[h].buffered

\* C9: when the delegation of item k fails, the call returns that error, items
\* k+1..n are not processed, and what items 1..k did stays: their tables are in
\* the index, counted, and hold the sequence number; nothing is rolled back.
ErrorNoRollback == []ErrorLeavesEarlierItems /\ [][NothingRolledBack]_vars

\* the second item failed in a table made for it; the first item was applied
ErrorNoRollbackWitness ==
    /\ pc[1] = "drop"
    /\ result[1] = Err
    /\ Len(outcomes[1]) = 2
    /\ outcomes[1][1].tag = "Applied"
    /\ how[1] = "created"
    /\ op[1].items[1][1] # op[1].items[2][1]

\* ---------------------------------------------------------------------
\* a running delete holds the marker and no table handle, and has delegated nothing
DeleteHoldsNothing ==
    \A w \in Writers :
        (op[w].kind = "Delete" /\ pc[w] # "idle") =>
            /\ pc[w] \in {"scoped", "delete", "drop", "dropping"}
            /\ table_data[w] = None
            /\ outcomes[w] = <<>>
            /\ buffering_sequence_number = op[w].seq
            /\ pc[w] \in {"drop", "dropping"} => result[w] = Applied(FALSE)

\* a step of a delete leaves the index, the counter and the tables as they are,
\* and its last step clears the marker and returns Applied(false)
DeleteStep ==
    \A w \in Writers :
        (pc'[w] # pc[w] /\ (pc[w] = "delete" \/ pc'[w] = "delete" \/
                             (pc[w] \in {"drop", "dropping"} /\ op[w].kind = "Delete"))) =>
            /\ UNCHANGED <<by_name, by_id, arena, table_count, tables_wlock>>
            /\ pc'[w] = "idle" =>
                /\ buffering_sequence_number' = None
                /\ result'[w] = Applied(FALSE)

\* C10: a delete, whatever table it names, changes neither the index nor the
\* counter nor a table, obtains no table and delegates to none, holds the marker
\* for the length of the call and returns Applied(false).
DeleteIsInert == []DeleteHoldsNothing /\ [][DeleteStep]_vars

\* a delete naming a table the index holds, about to return
DeleteIsInertWitness ==
    /\ pc[1] = "drop"
    /\ op[1].kind = "Delete"
    /\ op[1].table_name # None
    /\ by_name[op[1].table_name] # None

\* ---------------------------------------------------------------------
\* while tables.write() is free the counter is the number of instances the by-name
\* view holds, which are all the instances made; under the lock it is at most one
\* ahead, between line 269 and the insert
CounterMatchesIndex ==
    /\ tables_wlock = None =>
        /\ table_count = Cardinality(NameView)
        /\ table_count = Len(arena)
    /\ tables_wlock # None => table_count \in {Len(arena), Len(arena) + 1}

\* the counter moves by one, in a step of the holder of tables.write() that is
\* about to make an instance; no step lowers it, and no step removes a name from
\* the by-name view or binds it to another instance
CounterStep ==
    /\ table_count' \in {table_count, table_count + 1}
    /\ table_count' # table_count =>
        /\ tables_wlock # None
        /\ pc[tables_wlock] = "ins_count"
        /\ pc'[tables_wlock] = "ins_by_name"
        /\ table_count = Len(arena)
    /\ Len(arena') # Len(arena) =>
        /\ Len(arena') = Len(arena) + 1
        /\ table_count = Len(arena')
    /\ \A n \in Names : by_name[n] # None => by_name'[n] = by_name[n]

\* C11: the counter is incremented by exactly 1 for each table instance made and
\* on no other occasion; whenever tables.write() is not held it equals the number
\* of instances in the by-name view; it never decreases, and no entry of the
\* by-name view is removed or replaced.
CounterCountsTables == []CounterMatchesIndex /\ [][CounterStep]_vars

\* two names are in the index, one of them found in the second lookup by a caller
\* that lost the race for it
CounterCountsTablesWitness ==
    /\ tables_wlock = None
    /\ table_count = 2
    /\ Cardinality(NameView) = 2
    /\ \E w \in Writers : pc[w] = "buffer" /\ how[w] = "raced"

\* ---------------------------------------------------------------------
\* C12: a progress query that ran while no buffer_operation call was running,
\* after calls that did not overlap and have all returned, reports no actively
\* buffering sequence number and exactly the merge of the progress of every
\* instance those calls made, the instances the counter counts.
QuiescentProgressComplete ==
    \A r \in Readers :
        (qpc[r] = "done" /\ quiet[r]) =>
            /\ table_count = Len(arena)
            /\ progress[r].actively_buffering = None
            /\ progress[r].buffered = UNION {TableProgress(h).buffered : h \in DOMAIN arena}

\* ---------------------------------------------------------------------
\* the steps of a writer at which it is suspended: awaiting the table's
\* buffer_table_write, or between two turns of the loop
Suspended(w) == pc[w] \in {"loop", "buffer"}

\* C13: a task holds the lock of the index only in its lookup or insert step: no
\* buffer_operation call holds tables.read() or tables.write() while it awaits a
\* table's buffer_table_write or is suspended; a progress query holds
\* tables.read() only while it collects the handles, not when it reads the marker
\* or a table's progress.
IndexLockBrief ==
    /\ \A w \in Writers :
        /\ WriterTask(w) \in tables_rlock => pc[w] = "lookup"
        /\ tables_wlock = w => pc[w] \in {"ins_count", "ins_by_name", "ins_by_id", "ins_ret"}
        /\ Suspended(w) => (tables_wlock # w /\ WriterTask(w) \notin tables_rlock)
    /\ \A r \in Readers :
        /\ ReaderTask(r) \in tables_rlock => qpc[r] \in {"snap", "acc"}
        /\ qpc[r] \in {"marker", "overlay", "fold", "done"} => ReaderTask(r) \notin tables_rlock

\* a call awaits buffer_table_write of a table it has just made, under
\* tables.write(), while a query that took its snapshot reads the tables
IndexLockBriefWitness ==
    /\ pc[1] = "buffer"
    /\ how[1] = "created"
    /\ \E r \in Readers : qpc[r] = "fold" /\ tables[r] # {}
    /\ tables_wlock = None
    /\ tables_rlock = {}

\* ---------------------------------------------------------------------
\* C14: a progress query reads the marker after the last of its reads of a
\* table's progress: when it reads the marker, no table of its snapshot is still
\* to be read.
MarkerReadLast ==
    [][\A r \in Readers : (qpc[r] = "marker" /\ qpc'[r] = "overlay") => tables[r] = {}]_vars

\* ---------------------------------------------------------------------
\* a step of a reader, in progress or in an accessor
ReaderStep == qvars' # qvars

\* what an accessor holds is what the index holds under its key, absent when the
\* key is not in the index, or the field it was asked for
AccessorFound ==
    \A r \in Readers :
        qpc[r] = "acc" =>
            /\ lookup[r].kind = "table_data" => lookup[r].found = by_name[lookup[r].key]
            /\ lookup[r].kind = "table_id" => lookup[r].found = by_id[lookup[r].key]
            /\ lookup[r].kind = "namespace_id" => lookup[r].found = namespace_id
            /\ lookup[r].kind = "namespace_name" => lookup[r].found = namespace_name

\* C16: table_data, table_id, namespace_id, namespace_name and progress leave both
\* views of the index, the instances, the counter and the marker as they are, also
\* beside a running buffer_operation; a lookup of a name or id the index does not
\* hold returns None and makes nothing.
ReadsArePure == []AccessorFound /\ [][ReaderStep => UNCHANGED nsvars]_vars

\* beside a running call that has put a table in the index, table_data of
\* another name returns None
ReadsArePureWitness ==
    \E r \in Readers :
        /\ qpc[r] = "acc"
        /\ lookup[r].kind = "table_data"
        /\ lookup[r].found = None
        /\ pc[1] = "buffer"
        /\ table_count > 0

\* ---------------------------------------------------------------------
\* C17: with calls that overlap, and drops whose assertion fails among them, the
\* marker is None or the sequence number of a call that has set its guard and not
\* yet dropped it; when no call is left, it is None.
MarkerNeverStale ==
    \/ buffering_sequence_number = None
    \/ \E w \in Active : buffering_sequence_number = op[w].seq

\* a drop has failed its assertion, and the marker is that of the call still running
MarkerNeverStaleWitness ==
    /\ assert_failed
    /\ Cardinality(Active) = 1
    /\ buffering_sequence_number # None
    /\ \E w \in Writers : result[w] = Panicked

\* ---------------------------------------------------------------------
\* writer w is at an item whose name the index already holds, and is not the one
\* that is putting it there
NameKnown(w) ==
    /\ pc[w] \in {"loop", "lookup", "insert", "ins_ret", "buffer"}
    /\ idx[w] <= Len(op[w].items)
    /\ tables_wlock = w => how[w] = "raced"
    /\ by_name[Item(w)[1]] # None

\* the handle a writer delegates to is the instance the by-name view holds for
\* the item's name, and no name has two instances
DelegatesToNamed ==
    /\ \A n \in Names : Cardinality(InstancesNamed(n)) <= 1
    /\ \A w \in Writers :
        pc[w] = "buffer" =>
            /\ table_data[w] = by_name[Item(w)[1]]
            /\ arena[table_data[w]].table_name = Item(w)[1]

\* a step of a writer at an item whose name is known makes no instance, leaves
\* the counter and both views as they are; and no step rebinds a name
KnownNameStep ==
    /\ \A n \in Names : by_name[n] # None => by_name'[n] = by_name[n]
    /\ \A w \in Writers :
        (NameKnown(w) /\ pc'[w] # pc[w]) =>
            /\ Len(arena') = Len(arena)
            /\ UNCHANGED <<by_name, by_id, table_count>>

\* C18: once an instance exists for a name, a later item with that name, whatever
\* id it carries, is delegated to that instance: no instance is made, the counter
\* is not incremented, the by-id view is neither extended nor changed, and the
\* instance the by-name view holds for the name never changes.
IdentityFixedByName == []DelegatesToNamed /\ [][KnownNameStep]_vars

\* an item is delegated to the instance of its name, made with another id; the
\* item's id is not in the by-id view
IdentityFixedByNameWitness ==
    /\ pc[1] = "buffer"
    /\ how[1] = "hit"
    /\ Item(1)[2] # arena[table_data[1]].table_id
    /\ by_id[Item(1)[2]] = None

\* ---------------------------------------------------------------------
\* no task holds a lock of the index and a lock of the marker together; a
\* suspended call holds neither, and then both are free for a reader; a query
\* that reads the tables holds neither
LocksApart ==
    /\ \A w \in Writers :
        /\ ~(buffering_wlock = w /\ (tables_wlock = w \/ WriterTask(w) \in tables_rlock))
        /\ Suspended(w) =>
            /\ buffering_wlock # w
            /\ tables_wlock # w
            /\ WriterTask(w) \notin tables_rlock
    /\ \A r \in Readers :
        /\ ~(r \in buffering_rlock /\ ReaderTask(r) \in tables_rlock)
        /\ qpc[r] = "fold" => (r \notin buffering_rlock /\ ReaderTask(r) \notin tables_rlock)
    /\ Suspended(1) =>
        /\ CanRead(tables_wlock, TablesWriteWaiters)
        /\ CanRead(buffering_wlock, BufferingWriteWaiters)

\* a progress query that has taken its snapshot returns, and so does an accessor
QueryReturns ==
    \A r \in Readers :
        /\ (qpc[r] = "snap") ~> (qpc[r] = "done")
        /\ (qpc[r] = "acc") ~> (qpc[r] = "idle")

\* a buffer_operation call that has set its guard returns
ApplyReturns == (pc[1] # "idle") ~> (pc[1] = "idle")

====
